---- MODULE Spec2Model ----
(***************************************************************************)
(* Water-monitoring dashboard: the token/retry fetcher (get_data.py), the  *)
(* cleaning and aggregation pipeline (data_processing.py) and the          *)
(* background updater with the dashboard read path (main.py).              *)
(*                                                                         *)
(* Numbers are fixed point.  A raw numeric cell is <<>> (absent, null or   *)
(* not numeric: what pd.to_numeric(errors='coerce') turns into NaN) or     *)
(* <<v>> with v in thousandths.  A cleaned cell is <<>> (NaN) or <<v>>     *)
(* with v in hundredths for pH, Depth, FlowInd and in units for TDS.       *)
(* A raw timestamp cell is <<>> (a string the format does not parse: NaT)  *)
(* or <<m>>, m minutes after Monday 2024-01-01 00:00.                      *)
(* An aggregated cell is <<>> (missing) or <<num, den>>, the exact         *)
(* rational num/den.                                                       *)
(***************************************************************************)
EXTENDS Integers, Sequences, FiniteSets

VARIABLES
    script,            \* the API's answers to the attempts of one fetch call
    apiData,           \* the records the data endpoint serves
    fetched,           \* what the last fetch_data_from_api call did
    cleaned,           \* what the last preprocess_data call returned
    query,             \* the last query operation called, with its arguments
    result,            \* what that query operation did
    df,                \* main.py global df
    last_update_time,  \* main.py global last_update_time
    data_fetch_error,  \* main.py global data_fetch_error
    new_df,            \* update_data's local new_df
    upc,               \* where the updater thread is in update_data
    failStreak,        \* consecutive failed cycles so far (capped)
    rpc,               \* where the dashboard callback is
    rlocal,            \* the callback's locals
    rseen              \* every value df held while the callback ran

vars == <<script, apiData, fetched, cleaned, query, result, df, last_update_time,
          data_fetch_error, new_df, upc, failStreak, rpc, rlocal, rseen>>

(***************************************************************************)
(* Values                                                                  *)
(***************************************************************************)
NaN == <<>>

NoneVal == [kind |-> "None", rows |-> <<>>]

Json(rows) == [kind |-> "json", rows |-> rows]

DataFrame(rows) == [kind |-> "df", rows |-> rows]

Raised == [kind |-> "raise", rows |-> <<>>]

\* Python truthiness of a fetch result: None and the empty list are falsy.
Truthy(v) == v.kind # "None" /\ v.rows # <<>>

(***************************************************************************)
(* get_data.py                                                             *)
(***************************************************************************)
\* What the API does with one attempt: the token endpoint answers with a
\* non-200 status, fails on the network or answers 200 without a token; or it
\* hands out a token and the data endpoint answers 200, 401, another status
\* or fails on the network.
AttemptOutcomes ==
    {"TokStatus", "TokNetErr", "TokMissing", "D200", "D401", "DOther", "DNetErr"}

max_retries == 3

\* generate_token: the token, or None for a non-200 answer, a network error or
\* an answer without a "token" key.
generate_token(outcome) ==
    IF outcome \in {"TokStatus", "TokNetErr", "TokMissing"} THEN "None" ELSE "token"

\* A loop that runs one pass too many: range(max_retries + 1).
RangeFourAttempts(attempt) == attempt < max_retries + 1

\* The for loop of fetch_data_from_api: range(max_retries).
InRange(attempt) == attempt < max_retries

\* One pass of the loop body and the passes after it.  st counts the requests
\* made and the sleeps taken so far.
RECURSIVE FetchLoop(_, _, _, _)
FetchLoop(sc, data, attempt, st) ==
    IF ~InRange(attempt) \/ attempt >= Len(sc)
    THEN [st EXCEPT !.result = NoneVal]
    ELSE
      LET outcome == sc[attempt + 1]
          token == generate_token(outcome)
          t == [st EXCEPT !.tokenReqs = @ + 1, !.attempts = @ + 1]
      IN  IF token = "None"
          THEN [t EXCEPT !.result = NoneVal]
          ELSE
            LET d == [t EXCEPT !.dataReqs = @ + 1, !.last = outcome]
            IN  CASE outcome = "D200" -> [d EXCEPT !.result = Json(data)]
                  [] outcome = "D401" ->
                        FetchLoop(sc, data, attempt + 1, [d EXCEPT !.sleeps = @ + 1])
                  [] outcome = "DOther" -> [d EXCEPT !.result = NoneVal]
                  [] OTHER ->
                        IF attempt < max_retries - 1
                        THEN FetchLoop(sc, data, attempt + 1,
                                       [d EXCEPT !.sleeps = @ + 1])
                        ELSE [d EXCEPT !.result = NoneVal]

NotCalled ==
    [result |-> NoneVal, tokenReqs |-> 0, dataReqs |-> 0, attempts |-> 0,
     sleeps |-> 0, last |-> "none"]

fetch_data_from_api(sc, data) == FetchLoop(sc, data, 0, NotCalled)

(***************************************************************************)
(* data_processing.py: preprocess_data                                     *)
(***************************************************************************)
Columns == {"FlowInd", "TDS", "pH", "Depth"}

\* v / k rounded to the nearest integer, ties to the even one (numpy's round).
RoundDiv(v, k) ==
    LET q == v \div k
        r == v % k
    IN  IF 2 * r < k THEN q
        ELSE IF 2 * r > k THEN q + 1
        ELSE IF q % 2 = 0 THEN q ELSE q + 1

\* A whole column of a table, in row order.
Col(rows, c) == [i \in 1..Len(rows) |-> rows[i][c]]

\* Series.ffill: a missing value takes the last valid value before it.
ffill(col) ==
    LET F[i \in 0..Len(col)] ==
            IF i = 0 THEN NaN ELSE IF col[i] # NaN THEN col[i] ELSE F[i - 1]
    IN  [i \in 1..Len(col) |-> F[i]]

\* Series.bfill: a missing value takes the next valid value after it.
bfill(col) ==
    LET n == Len(col)
        B[i \in 1..(n + 1)] ==
            IF i = n + 1 THEN NaN ELSE IF col[i] # NaN THEN col[i] ELSE B[i + 1]
    IN  [i \in 1..n |-> B[i]]

fillna(col, v) == [i \in 1..Len(col) |-> IF col[i] = NaN THEN <<v>> ELSE col[i]]

\* The fills in the other order: bfill().ffill().fillna(0)
FillBackwardFirst(col) == fillna(ffill(bfill(col)), 0)

\* df[c].ffill().bfill().fillna(0)
FillChain(col) == fillna(bfill(ffill(col)), 0)

\* .round().astype('Int64') for TDS (thousandths to units), .round(2) for the
\* others (thousandths to hundredths).
RoundCell(c, cell) ==
    IF cell = NaN THEN NaN
    ELSE IF c = "TDS" THEN <<RoundDiv(cell[1], 1000)>> ELSE <<RoundDiv(cell[1], 10)>>

NeutralPH == 700

\* A range validation without the pH > 14 line.
ClampKeepsHighPH(c, cell) ==
    IF cell = NaN THEN cell
    ELSE IF cell[1] < 0 THEN (IF c = "pH" THEN <<NeutralPH>> ELSE <<0>>)
    ELSE cell

\* df.loc[df['pH'] < 0, 'pH'] = 7.0; df.loc[df['pH'] > 14, 'pH'] = 7.0;
\* df.loc[df[c] < 0, c] = 0 for TDS, Depth, FlowInd.  NaN compares false.
Clamp(c, cell) ==
    IF cell = NaN THEN cell
    ELSE IF c = "pH"
         THEN (IF cell[1] < 0 \/ cell[1] > 1400 THEN <<NeutralPH>> ELSE cell)
         ELSE (IF cell[1] < 0 THEN <<0>> ELSE cell)

\* One column through fill, round and range validation.
CleanColumn(c, col) ==
    LET filled == FillChain(col)
    IN  [i \in 1..Len(col) |-> Clamp(c, RoundCell(c, filled[i]))]

\* pd.to_datetime(errors='coerce') and dropna(subset=['timestamp']).
ValidTimestamp(r) == r.timestamp # <<>>

\* preprocess_data given what its fetch_data_from_api call returned: None for
\* no data, else the cleaned table.
preprocess_data(data) ==
    IF ~Truthy(data) THEN NoneVal
    ELSE
      LET kept == SelectSeq(data.rows, ValidTimestamp)
          col(c) == CleanColumn(c, Col(kept, c))
      IN  DataFrame([i \in 1..Len(kept) |->
                        [timestamp |-> kept[i].timestamp[1],
                         FlowInd |-> col("FlowInd")[i],
                         TDS |-> col("TDS")[i],
                         pH |-> col("pH")[i],
                         Depth |-> col("Depth")[i]]])

(***************************************************************************)
(* data_processing.py: the query operations                                *)
(***************************************************************************)
\* timestamp.dt.date and parser.parse(...).date(): the calendar day, time of
\* day dropped.
DateOf(m) == m \div 1440

\* Last day of each month of 2024, counted from 1 January = day 0.
MonthEnds == <<30, 59, 90, 120, 151, 181, 212, 243, 273, 304, 334, 365>>

\* The bucket a timestamp falls in, as an index on the bucket grid of a
\* resampling rule: 'h' calendar hours, 'D' calendar days, 'W-Mon' weeks
\* closed and labelled on their Monday, 'ME' calendar months labelled on
\* their last day.
BucketIndex(rule, m) ==
    CASE rule = "h" -> m \div 60
      [] rule = "D" -> DateOf(m)
      [] rule = "W-Mon" -> (DateOf(m) + 6) \div 7
      [] OTHER -> Cardinality({i \in 1..12 : MonthEnds[i] < DateOf(m)})

\* The timestamp that labels a bucket.
BucketLabel(rule, b) ==
    CASE rule = "h" -> b * 60
      [] rule = "D" -> b * 1440
      [] rule = "W-Mon" -> b * 7 * 1440
      [] OTHER -> MonthEnds[b + 1] * 1440

RECURSIVE SumCells(_)
SumCells(cells) ==
    IF cells = <<>> THEN 0 ELSE Head(cells)[1] + SumCells(Tail(cells))

NotNaN(cell) == cell # NaN

\* A pandas reducer over the values of one bucket: 'mean' of nothing is NaN,
\* 'sum' of nothing is 0.
Reduce(how, cells) ==
    LET valid == SelectSeq(cells, NotNaN)
    IN  IF how = "mean"
        THEN (IF valid = <<>> THEN NaN ELSE <<SumCells(valid), Len(valid)>>)
        ELSE <<SumCells(valid), 1>>

\* df.resample(rule).agg(agg).reset_index(): one row for every bucket of the
\* grid from the first populated one to the last, populated or not.
Resample(rows, rule, agg) ==
    IF rows = <<>> THEN <<>>
    ELSE
      LET idx == {BucketIndex(rule, rows[i].timestamp) : i \in 1..Len(rows)}
          lo == CHOOSE b \in idx : \A c \in idx : b <= c
          hi == CHOOSE b \in idx : \A c \in idx : b >= c
          InBucket(b) ==
              SelectSeq(rows, LAMBDA r : BucketIndex(rule, r.timestamp) = b)
      IN  [k \in 1..(hi - lo + 1) |->
              LET members == InBucket(lo + k - 1)
              IN  [c \in DOMAIN agg \cup {"timestamp"} |->
                      IF c = "timestamp" THEN BucketLabel(rule, lo + k - 1)
                      ELSE Reduce(agg[c], Col(members, c))]]

\* The rows whose calendar date lies in [from_date, to_date].
DateRange(rows, from_date, to_date) ==
    SelectSeq(rows, LAMBDA r : /\ DateOf(r.timestamp) >= DateOf(from_date)
                               /\ DateOf(r.timestamp) <= DateOf(to_date))

\* df[(df['TDS'] != 0)] then df[(df['pH'] != 0)]
NonZeroTdsPh(rows) == SelectSeq(rows, LAMBDA r : r.TDS # <<0>> /\ r.pH # <<0>>)

SumSumMeanMean ==
    [FlowInd |-> "sum", Depth |-> "sum", TDS |-> "mean", pH |-> "mean"]

\* water_data.merge(tds_ph_data, how='inner', on='timestamp')
MergeInner(left, right) ==
    LET Match(l) == \E j \in 1..Len(right) : right[j]["timestamp"] = l["timestamp"]
        hit == SelectSeq(left, Match)
    IN  [i \in 1..Len(hit) |->
            LET r == right[CHOOSE j \in 1..Len(right) :
                               right[j]["timestamp"] = hit[i]["timestamp"]]
            IN  [c \in DOMAIN hit[i] \cup DOMAIN r |->
                    IF c \in DOMAIN hit[i] THEN hit[i][c] ELSE r[c]]]

\* Each operation is given what its own preprocess_data call returned.  None
\* cannot be subscripted: df[...] raises TypeError, which nothing here catches.
filter_data(pre, from_date, to_date) ==
    IF pre.kind = "None" THEN Raised
    ELSE DataFrame(DateRange(pre.rows, from_date, to_date))

filter_data_daily(pre, from_date, to_date) ==
    IF pre.kind = "None" THEN Raised
    ELSE
      LET ranged == DateRange(pre.rows, from_date, to_date)
          water_data == Resample(ranged, "D", [FlowInd |-> "mean", Depth |-> "mean"])
          tds_ph_data ==
              Resample(NonZeroTdsPh(ranged), "D", [TDS |-> "mean", pH |-> "mean"])
      IN  DataFrame(MergeInner(water_data, tds_ph_data))

filter_data_weekly(pre, from_date, to_date) ==
    IF pre.kind = "None" THEN Raised
    ELSE DataFrame(Resample(DateRange(pre.rows, from_date, to_date), "W-Mon",
                            SumSumMeanMean))

filter_data_monthly(pre, from_date, to_date) ==
    IF pre.kind = "None" THEN Raised
    ELSE DataFrame(Resample(DateRange(NonZeroTdsPh(pre.rows), from_date, to_date),
                            "ME", SumSumMeanMean))

\* The name filter_data_hourly as the module leaves it bound: the second
\* definition (line 150) replaces the first (line 79).
filter_data_hourly(pre) ==
    IF pre.kind = "None" THEN Raised
    ELSE DataFrame(Resample(NonZeroTdsPh(pre.rows), "h", SumSumMeanMean))

(***************************************************************************)
(* Inputs                                                                  *)
(***************************************************************************)
Rec(t, f, d, p, h) ==
    [timestamp |-> t, FlowInd |-> f, TDS |-> d, pH |-> p, Depth |-> h]

\* All sequences over S of length 0..n.
RECURSIVE SeqsUpTo(_, _)
SeqsUpTo(S, n) ==
    IF n = 0 THEN {<<>>}
    ELSE LET shorter == SeqsUpTo(S, n - 1)
         IN  shorter \cup {Append(q, x) : q \in {r \in shorter : Len(r) = n - 1}, x \in S}

ScriptLen == 4

\* An API that answers every attempt with 200, and one whose token endpoint
\* refuses.
ApiUp == [i \in 1..ScriptLen |-> "D200"]

ApiDown == [i \in 1..ScriptLen |-> "TokStatus"]

Idle == [op |-> "none", from_date |-> 0, to_date |-> 0]

NoResult == [kind |-> "none", rows |-> <<>>]

\* The state of the parts a specification leaves alone.
FetchIdle == fetched = NotCalled

CleanIdle == cleaned = NoResult

QueryIdle == query = Idle /\ result = NoResult

DashIdle ==
    /\ df = DataFrame(<<>>)
    /\ last_update_time = "None"
    /\ data_fetch_error = "None"
    /\ new_df = NoneVal
    /\ upc = "start"
    /\ failStreak = 0
    /\ rpc = "idle"
    /\ rlocal = <<>>
    /\ rseen = {}

dashVars == <<df, last_update_time, data_fetch_error, new_df, upc, failStreak,
              rpc, rlocal, rseen>>

(***************************************************************************)
(* One call of fetch_data_from_api against every script of answers         *)
(***************************************************************************)
FetchDatasets ==
    {<<>>, <<Rec(<<0>>, <<1000>>, <<10000>>, <<7000>>, <<1500>>)>>}

InitFetch ==
    /\ script \in [1..ScriptLen -> AttemptOutcomes]
    /\ apiData \in FetchDatasets
    /\ FetchIdle /\ CleanIdle /\ QueryIdle /\ DashIdle

FetchCall ==
    /\ fetched = NotCalled
    /\ fetched' = fetch_data_from_api(script, apiData)
    /\ UNCHANGED <<script, apiData, cleaned, query, result>>
    /\ UNCHANGED dashVars

SpecFetch == InitFetch /\ [][FetchCall]_vars

\* C5: a call makes at most max_retries token requests and at most
\* max_retries data requests, and it returns the served records exactly when
\* its last data request was answered 200; otherwise it returns None.
FetchBoundedAndOnly200 ==
    fetched # NotCalled =>
        /\ fetched.tokenReqs <= max_retries
        /\ fetched.dataReqs <= max_retries
        /\ fetched.attempts <= max_retries
        /\ fetched.dataReqs <= fetched.tokenReqs
        /\ (fetched.last = "D200") <=> (fetched.result = Json(apiData))
        /\ (fetched.last # "D200") <=> (fetched.result = NoneVal)

\* Three 401 answers in a row: the retries are all used and None comes back.
FetchRetriesExhausted ==
    /\ fetched.attempts = max_retries
    /\ fetched.dataReqs = max_retries
    /\ fetched.last = "D401"
    /\ fetched.result = NoneVal

(***************************************************************************)
(* preprocess_data on raw tables                                           *)
(***************************************************************************)
MaxRows == 2

FillLen == 5

\* Short tables over records that mix unparseable timestamps, missing cells,
\* out-of-range and in-range values in every column.
WideRecords ==
    {Rec(t, fd[1], d, p, fd[2]) :
        t \in {<<>>, <<0>>},
        fd \in {<<NaN, <<-3000>>>>, <<<<-3004>>, <<1234>>>>},
        d \in {NaN, <<-3000>>, <<10500>>},
        p \in {NaN, <<-5000>>, <<20000>>, <<14004>>}}

\* Longer tables with valid timestamps in which one column runs over missing
\* and valid values and the others are constant.
FillValues == {NaN, <<5000>>, <<8000>>}

LongTable(c, col) ==
    [i \in 1..Len(col) |->
        [Rec(<<i>>, <<1000>>, <<1000>>, <<7000>>, <<1000>>) EXCEPT ![c] = col[i]]]

InitClean ==
    /\ \/ apiData \in SeqsUpTo(WideRecords, MaxRows)
       \/ \E c \in Columns, col \in SeqsUpTo(FillValues, FillLen) :
            apiData = LongTable(c, col)
    /\ script \in {ApiUp, ApiDown}
    /\ FetchIdle /\ CleanIdle /\ QueryIdle /\ DashIdle

Preprocess ==
    /\ cleaned = NoResult
    /\ cleaned' = preprocess_data(fetch_data_from_api(script, apiData).result)
    /\ UNCHANGED <<script, apiData, fetched, query, result>>
    /\ UNCHANGED dashVars

SpecClean == InitClean /\ [][Preprocess]_vars

\* The raw rows a cleaned table's rows come from, in order.
KeptRaw == SelectSeq(apiData, ValidTimestamp)

\* C6 as stated: every row of a cleaned table has pH in [0, 14] and TDS,
\* Depth and FlowInd at least 0; a raw pH below 0 or above 14 becomes exactly
\* 7.0 and a negative raw TDS, Depth or FlowInd becomes 0.
CleanedInRangeAsStated ==
    cleaned.kind = "df" =>
        /\ Len(cleaned.rows) = Len(KeptRaw)
        /\ \A i \in 1..Len(cleaned.rows) :
            LET row == cleaned.rows[i]
                raw == KeptRaw[i]
            IN  /\ row.pH # NaN /\ row.pH[1] >= 0 /\ row.pH[1] <= 1400
                /\ \A c \in Columns \ {"pH"} : row[c] # NaN /\ row[c][1] >= 0
                /\ (raw.pH # NaN /\ (raw.pH[1] < 0 \/ raw.pH[1] > 14000))
                      => row.pH = <<700>>
                /\ \A c \in Columns \ {"pH"} :
                      (raw[c] # NaN /\ raw[c][1] < 0) => row[c] = <<0>>

\* C6 amended: every row of a cleaned table has pH in [0, 14] and TDS, Depth
\* and FlowInd at least 0; a raw pH more than 0.005 below 0 or above 14
\* becomes exactly 7.0 (-5 and 20 do), a raw pH of 14.004 is rounded into
\* the range first and kept as 14.0, and a negative raw TDS, Depth or FlowInd
\* becomes 0.
CleanedInRange ==
    cleaned.kind = "df" =>
        /\ Len(cleaned.rows) = Len(KeptRaw)
        /\ \A i \in 1..Len(cleaned.rows) :
            LET row == cleaned.rows[i]
                raw == KeptRaw[i]
            IN  /\ row.pH # NaN /\ row.pH[1] >= 0 /\ row.pH[1] <= 1400
                /\ \A c \in Columns \ {"pH"} : row[c] # NaN /\ row[c][1] >= 0
                /\ (raw.pH # NaN /\ (raw.pH[1] + 5 < 0 \/ raw.pH[1] - 5 > 14000))
                      => row.pH = <<700>>
                /\ raw.pH \in {<<-5000>>, <<20000>>} => row.pH = <<700>>
                /\ raw.pH = <<14004>> => row.pH = <<1400>>
                /\ \A c \in Columns \ {"pH"} :
                      (raw[c] # NaN /\ raw[c][1] < 0) => row[c] = <<0>>

\* A cleaned table holding a row whose raw pH was 20 and a row whose raw TDS
\* was -3.
CleanedOutOfRangeSeen ==
    /\ cleaned.kind = "df"
    /\ \E i \in 1..Len(KeptRaw) : KeptRaw[i].pH = <<20000>>
    /\ \E i \in 1..Len(KeptRaw) : KeptRaw[i].pH = <<-5000>>
    /\ \E i \in 1..Len(KeptRaw) : KeptRaw[i].TDS = <<-3000>>

\* The column of the example, in thousandths, and a cleaned column in the
\* units of column c.
ExampleColumn == <<NaN, NaN, <<5000>>, NaN, <<8000>>>>

InUnits(c, vals) ==
    [i \in 1..Len(vals) |-> IF c = "TDS" THEN <<vals[i]>> ELSE <<vals[i] * 100>>]

ExampleCleaned(c) ==
    /\ cleaned.kind = "df"
    /\ Len(KeptRaw) = Len(apiData)
    /\ Col(apiData, c) = ExampleColumn

\* C7 as stated: the column [NaN, NaN, 5, NaN, 8] is cleaned to
\* [5, 5, 5, 8, 8].
FillExampleAsStated ==
    \A c \in Columns :
        ExampleCleaned(c) => Col(cleaned.rows, c) = InUnits(c, <<5, 5, 5, 8, 8>>)

\* C7 amended: the column [NaN, NaN, 5, NaN, 8] is cleaned to
\* [5, 5, 5, 5, 8]: the forward fill runs first and gives the NaN after the
\* 5 the value 5, and the backward fill is left the two leading NaN only.
FillExampleForwardFirst ==
    \A c \in Columns :
        ExampleCleaned(c) => Col(cleaned.rows, c) = InUnits(c, <<5, 5, 5, 5, 8>>)

\* The example column has been cleaned, as the TDS column.
FillExampleSeen == ExampleCleaned("TDS")

(***************************************************************************)
(* The query operations on served tables                                   *)
(***************************************************************************)
QueryRows == 3

\* Readings at 00:00 and 02:00 of 1 January, on 2 and 3 January and on
\* 1 March 2024; TDS and pH zero or not.
QueryRecords ==
    {Rec(<<t>>, v[1], v[2], v[3], <<1500>>) :
        t \in {0, 120, 1440, 2880, 86400},
        v \in {<<<<1000>>, <<0>>, <<7000>>>>, <<<<2000>>, <<10000>>, <<7000>>>>,
               <<<<3000>>, <<20000>>, <<7000>>>>, <<<<1000>>, <<10000>>, <<0>>>>}}

\* from_date and to_date as parsed: the whole year, or 2 to 3 January.
DateRanges == {<<0, 527039>>, <<1500, 2880>>}

InitQuery ==
    /\ apiData \in SeqsUpTo(QueryRecords, QueryRows)
    /\ script = ApiUp
    /\ FetchIdle /\ CleanIdle /\ QueryIdle /\ DashIdle

\* The operation's own preprocess_data call, against an API that is up or down.
Called(op, from_date, to_date, sc, out) ==
    /\ query = Idle
    /\ script' = sc
    /\ query' = [op |-> op, from_date |-> from_date, to_date |-> to_date]
    /\ result' = out
    /\ UNCHANGED <<apiData, fetched, cleaned>>
    /\ UNCHANGED dashVars

Pre(sc) == preprocess_data(fetch_data_from_api(sc, apiData).result)

CallFilterData ==
    \E sc \in {ApiUp, ApiDown}, r \in DateRanges :
        Called("filter_data", r[1], r[2], sc, filter_data(Pre(sc), r[1], r[2]))

CallFilterDataDaily ==
    \E sc \in {ApiUp, ApiDown}, r \in DateRanges :
        Called("filter_data_daily", r[1], r[2], sc,
               filter_data_daily(Pre(sc), r[1], r[2]))

CallFilterDataWeekly ==
    \E sc \in {ApiUp, ApiDown}, r \in DateRanges :
        Called("filter_data_weekly", r[1], r[2], sc,
               filter_data_weekly(Pre(sc), r[1], r[2]))

CallFilterDataMonthly ==
    \E sc \in {ApiUp, ApiDown}, r \in DateRanges :
        Called("filter_data_monthly", r[1], r[2], sc,
               filter_data_monthly(Pre(sc), r[1], r[2]))

CallFilterDataHourly ==
    \E sc \in {ApiUp, ApiDown} :
        Called("filter_data_hourly", 0, 0, sc, filter_data_hourly(Pre(sc)))

NextQuery ==
    \/ CallFilterData
    \/ CallFilterDataDaily
    \/ CallFilterDataWeekly
    \/ CallFilterDataMonthly
    \/ CallFilterDataHourly

SpecQuery == InitQuery /\ [][NextQuery]_vars

\* The cleaned table the last query worked on, and its rows inside the
\* query's date range.
QueryCleaned == Pre(script).rows

QueryRanged == DateRange(QueryCleaned, query.from_date, query.to_date)

HasTdsPh(r) == r.TDS # <<0>> /\ r.pH # <<0>>

\* The rows that feed the buckets of the last query, and the rule it buckets by.
Contributing ==
    CASE query.op = "filter_data_hourly" -> SelectSeq(QueryCleaned, HasTdsPh)
      [] query.op = "filter_data_monthly" -> SelectSeq(QueryRanged, HasTdsPh)
      [] OTHER -> QueryRanged

QueryRule ==
    CASE query.op = "filter_data_hourly" -> "h"
      [] query.op = "filter_data_monthly" -> "ME"
      [] query.op = "filter_data_weekly" -> "W-Mon"
      [] OTHER -> "D"

BucketMembers(rows, label) ==
    SelectSeq(rows, LAMBDA r :
        BucketLabel(QueryRule, BucketIndex(QueryRule, r.timestamp)) = label)

\* Two aggregated cells hold the same number.
SameNumber(a, b) ==
    IF a = NaN \/ b = NaN THEN a = b ELSE a[1] * b[2] = b[1] * a[2]

\* C3: with the fetch unavailable, each of the five query operations returns
\* a null or empty result and raises nothing.
QueryNullWhenUnavailable ==
    (query # Idle /\ script = ApiDown) =>
        /\ result.kind # "raise"
        /\ result.rows = <<>>

\* C8: the hourly operation drops the rows with TDS = 0 or pH = 0 and gives
\* every column of every hour bucket the mean of the rows left in that hour.
HourlyAllMeans ==
    (query.op = "filter_data_hourly" /\ result.kind = "df") =>
        \A i \in 1..Len(result.rows) :
            LET row == result.rows[i]
                members == BucketMembers(Contributing, row["timestamp"])
            IN  \A c \in Columns :
                    SameNumber(row[c],
                               IF members = <<>> THEN NaN
                               ELSE <<SumCells(Col(members, c)), Len(members)>>)

\* C9: every row of the daily output is a day that has a reading in the range
\* and a reading in the range with TDS and pH both nonzero.
DailyRowsHaveBothReadings ==
    (query.op = "filter_data_daily" /\ result.kind = "df") =>
        \A i \in 1..Len(result.rows) :
            LET members == BucketMembers(QueryRanged, result.rows[i]["timestamp"])
            IN  /\ members # <<>>
                /\ \E j \in 1..Len(members) : HasTdsPh(members[j])

\* C10: in the hourly, weekly and monthly outputs a bucket with no
\* contributing row is missing in all four columns.
EmptyBucketsMissing ==
    (/\ query.op \in {"filter_data_hourly", "filter_data_weekly", "filter_data_monthly"}
     /\ result.kind = "df") =>
        \A i \in 1..Len(result.rows) :
            BucketMembers(Contributing, result.rows[i]["timestamp"]) = <<>>
                => \A c \in Columns : result.rows[i][c] = NaN

(***************************************************************************)
(* main.py: the updater thread and the dashboard callbacks                 *)
(***************************************************************************)
DashRows == 2

MaxStreak == 2

\* What the API may serve to a fetch of the updater: readings at 00:00 and
\* 01:00, TDS zero or not.
DashRecords ==
    {Rec(<<t>>, <<1000>>, d, <<7000>>, <<1500>>) :
        t \in {0, 60}, d \in {<<0>>, <<10000>>}}

DashInputs == SeqsUpTo(DashRecords, DashRows)

\* The start_time a callback computes from now and its time range.
StartTimes == {0, 60}

RECURSIVE MaxTs(_)
MaxTs(rows) ==
    IF Len(rows) = 1 THEN rows[1]["timestamp"]
    ELSE LET m == MaxTs(Tail(rows))
         IN  IF rows[1]["timestamp"] > m THEN rows[1]["timestamp"] ELSE m

RECURSIVE MinTs(_)
MinTs(rows) ==
    IF Len(rows) = 1 THEN rows[1]["timestamp"]
    ELSE LET m == MinTs(Tail(rows))
         IN  IF rows[1]["timestamp"] < m THEN rows[1]["timestamp"] ELSE m

\* new_df is None or new_df.empty
NoneOrEmpty(t) == t.kind = "None" \/ t.rows = <<>>

\* verify_data_quality, on a table that has the five columns.
verify_data_quality(t) == ~NoneOrEmpty(t)

\* fetch_latest_data after a truthy raw_data: the hourly table if it
\* verifies, None if it does not or if filter_data_hourly raised.
fetch_latest_data(hourly) ==
    IF hourly.kind = "raise" THEN NoneVal
    ELSE IF verify_data_quality(hourly) THEN hourly ELSE NoneVal

\* The comparison with >= in place of >.
NotOlder(new, cur) ==
    cur.rows = <<>> \/ MaxTs(new.rows) >= MaxTs(cur.rows)

\* df.empty or new_df['timestamp'].max() > df['timestamp'].max()
IsNewer(new, cur) ==
    cur.rows = <<>> \/ MaxTs(new.rows) > MaxTs(cur.rows)

\* A loop that ends once a cycle has failed.
LoopWhileNoError == data_fetch_error = "None"

\* while True:
LoopContinues == TRUE

InitDash ==
    /\ script = ApiUp
    /\ apiData = <<>>
    /\ FetchIdle /\ CleanIdle /\ QueryIdle /\ DashIdle

readerVars == <<rpc, rlocal>>

pipelineVars == <<fetched, cleaned, query, result>>

Running == rpc \notin {"idle", "returned"}

\* Everything one fetch_data_from_api call of the updater may return, and
\* everything the filter_data_hourly() call of line 59 may do with its own
\* fetch: the API is up or down and serves any of DashInputs.
RawOutcomes ==
    {fetch_data_from_api(sc, d).result : sc \in {ApiUp, ApiDown}, d \in DashInputs}

HourlyOutcomes == {filter_data_hourly(preprocess_data(raw)) : raw \in RawOutcomes}

\* Line 54: raw_data = fetch_data_from_api(API_URL).
UFetchRaw ==
    /\ upc = "start"
    /\ \E raw_data \in RawOutcomes :
        IF Truthy(raw_data)
        THEN upc' = "hourly" /\ new_df' = new_df
        ELSE upc' = "decide" /\ new_df' = NoneVal
    /\ UNCHANGED <<script, apiData, df, last_update_time, data_fetch_error,
                   failStreak, rseen>>
    /\ UNCHANGED readerVars
    /\ UNCHANGED pipelineVars

\* Lines 59-68: filter_data_hourly() fetches again and cleans; then the
\* verification.
UHourly ==
    /\ upc = "hourly"
    /\ \E hourly \in HourlyOutcomes : new_df' = fetch_latest_data(hourly)
    /\ upc' = "decide"
    /\ UNCHANGED <<script, apiData, df, last_update_time, data_fetch_error,
                   failStreak, rseen>>
    /\ UNCHANGED readerVars
    /\ UNCHANGED pipelineVars

\* Lines 86-99: replace df, or keep it and warn, or record the failure.
\* Nothing in these lines raises on a verified table, so the handler of
\* lines 101-103 has no step of its own.
UDecide ==
    /\ upc = "decide"
    /\ IF ~NoneOrEmpty(new_df)
       THEN /\ failStreak' = 0
            /\ data_fetch_error' = data_fetch_error
            /\ IF IsNewer(new_df, df)
               THEN /\ df' = new_df
                    /\ rseen' = IF Running THEN rseen \cup {new_df} ELSE rseen
                    /\ upc' = "set_time"
               ELSE /\ UNCHANGED <<df, rseen>>
                    /\ upc' = "wait"
       ELSE /\ data_fetch_error' = "Failed to fetch new data"
            /\ failStreak' = IF failStreak < MaxStreak THEN failStreak + 1 ELSE failStreak
            /\ UNCHANGED <<df, rseen>>
            /\ upc' = "wait"
    /\ UNCHANGED <<script, apiData, last_update_time, new_df>>
    /\ UNCHANGED readerVars
    /\ UNCHANGED pipelineVars

\* Line 90: last_update_time = datetime.now()
USetTime ==
    /\ upc = "set_time"
    /\ last_update_time' = "now"
    /\ upc' = "clear_error"
    /\ UNCHANGED <<script, apiData, df, data_fetch_error, new_df, failStreak, rseen>>
    /\ UNCHANGED readerVars
    /\ UNCHANGED pipelineVars

\* Line 91: data_fetch_error = None
UClearError ==
    /\ upc = "clear_error"
    /\ data_fetch_error' = "None"
    /\ upc' = "wait"
    /\ UNCHANGED <<script, apiData, df, last_update_time, new_df, failStreak, rseen>>
    /\ UNCHANGED readerVars
    /\ UNCHANGED pipelineVars

\* Line 107: time.sleep(600), then the loop test; the next cycle's new_df is
\* not yet bound.
UWait ==
    /\ upc = "wait"
    /\ upc' = IF LoopContinues THEN "start" ELSE "stopped"
    /\ new_df' = NoneVal
    /\ UNCHANGED <<script, apiData, df, last_update_time, data_fetch_error,
                   failStreak, rseen>>
    /\ UNCHANGED readerVars
    /\ UNCHANGED pipelineVars

Updater == UFetchRaw \/ UHourly \/ UDecide \/ USetTime \/ UClearError \/ UWait

\* The locals of a callback invocation.
Locals(op, start_time) ==
    [op |-> op, start_time |-> start_time, status_color |-> "unset",
     status_message |-> "unset", latest_time |-> 0, earliest_time |-> 0,
     record_count |-> 0, mask |-> <<>>, out |-> <<>>]

updaterVars == <<df, last_update_time, data_fetch_error, new_df, upc, failStreak>>

RStep(pc, locals) ==
    /\ rpc' = pc
    /\ rlocal' = locals
    /\ UNCHANGED <<script, apiData, rseen>>
    /\ UNCHANGED updaterVars
    /\ UNCHANGED pipelineVars

\* The interval fires: update_status(n) or update_graphs(n, time_range).
RBegin ==
    /\ rpc = "idle"
    /\ \/ rpc' = "s155" /\ rlocal' = Locals("update_status", 0)
       \/ \E st \in StartTimes :
            rpc' = "g185" /\ rlocal' = Locals("update_graphs", st)
    /\ rseen' = {df}
    /\ UNCHANGED <<script, apiData>>
    /\ UNCHANGED updaterVars
    /\ UNCHANGED pipelineVars

\* Line 155: if df.empty: return the waiting texts.
RStatusEmpty ==
    /\ rpc = "s155"
    /\ IF df.rows = <<>>
       THEN RStep("returned", [rlocal EXCEPT !.out = <<"No data available">>])
       ELSE RStep("s162", rlocal)

\* Line 162: status_color
RStatusColor ==
    /\ rpc = "s162"
    /\ RStep("s163", [rlocal EXCEPT !.status_color =
                        IF data_fetch_error # "None" THEN "red" ELSE "green"])

\* Line 163: the test of the conditional expression ...
RStatusMessageTest ==
    /\ rpc = "s163"
    /\ IF data_fetch_error # "None"
       THEN RStep("s163v", rlocal)
       ELSE RStep("s166", [rlocal EXCEPT !.status_message = "Data feed active"])

\* ... and the second read of data_fetch_error for its value.
RStatusMessageValue ==
    /\ rpc = "s163v"
    /\ RStep("s166", [rlocal EXCEPT !.status_message = data_fetch_error])

\* Line 166: latest_time = df['timestamp'].max()
RStatusLatest ==
    /\ rpc = "s166"
    /\ RStep("s167", [rlocal EXCEPT !.latest_time = MaxTs(df.rows)])

\* Line 167: earliest_time = df['timestamp'].min()
RStatusEarliest ==
    /\ rpc = "s167"
    /\ RStep("s168", [rlocal EXCEPT !.earliest_time = MinTs(df.rows)])

\* Line 168: record_count = len(df)
RStatusCount ==
    /\ rpc = "s168"
    /\ RStep("s170", [rlocal EXCEPT !.record_count = Len(df.rows)])

\* Lines 170-176: the summary and the returned triple.
RStatusReturn ==
    /\ rpc = "s170"
    /\ RStep("returned",
             [rlocal EXCEPT !.out =
                <<IF last_update_time # "None" THEN "Last Updated" ELSE "Never",
                  rlocal.status_message,
                  [record_count |-> rlocal.record_count,
                   earliest_time |-> rlocal.earliest_time,
                   latest_time |-> rlocal.latest_time]>>])

\* Line 185: if df.empty: return the waiting figures.
RGraphsEmpty ==
    /\ rpc = "g185"
    /\ IF df.rows = <<>>
       THEN RStep("returned", [rlocal EXCEPT !.out = <<"Waiting for data...">>])
       ELSE RStep("g203", rlocal)

\* Line 203: mask = (df['timestamp'] >= start_time)
RGraphsMask ==
    /\ rpc = "g203"
    /\ RStep("g204", [rlocal EXCEPT !.mask =
                        [i \in 1..Len(df.rows) |->
                            df.rows[i]["timestamp"] >= rlocal.start_time]])

\* df[mask]: a boolean Series is aligned to the frame's index; pandas raises
\* IndexingError when the frame has a row the mask has no entry for.
BoolIndex(rows, mask) ==
    IF Len(rows) > Len(mask) THEN Raised
    ELSE DataFrame(LET keep == {i \in 1..Len(rows) : mask[i]}
                       Pick[i \in 0..Len(rows)] ==
                           IF i = 0 THEN <<>>
                           ELSE IF i \in keep THEN Append(Pick[i - 1], rows[i])
                           ELSE Pick[i - 1]
                   IN  Pick[Len(rows)])

\* What update_graphs returns for a filtered table: the no-data figures or
\* the traces of its rows.
Figures(filtered) ==
    IF filtered.kind = "raise" THEN <<"IndexingError">>
    ELSE IF filtered.rows = <<>> THEN <<"No data available for selected time range">>
    ELSE <<"figures", filtered.rows>>

\* Lines 204-277: filtered_df = df[mask].copy() and the figures built from it.
RGraphsFilter ==
    /\ rpc = "g204"
    /\ RStep("returned", [rlocal EXCEPT !.out = Figures(BoolIndex(df.rows, rlocal.mask))])

\* The callback has answered; the next interval may fire.
RDone ==
    /\ rpc = "returned"
    /\ rpc' = "idle"
    /\ rlocal' = <<>>
    /\ rseen' = {}
    /\ UNCHANGED <<script, apiData>>
    /\ UNCHANGED updaterVars
    /\ UNCHANGED pipelineVars

Reader ==
    \/ RBegin
    \/ RStatusEmpty
    \/ RStatusColor
    \/ RStatusMessageTest
    \/ RStatusMessageValue
    \/ RStatusLatest
    \/ RStatusEarliest
    \/ RStatusCount
    \/ RStatusReturn
    \/ RGraphsEmpty
    \/ RGraphsMask
    \/ RGraphsFilter
    \/ RDone

NextDash == Updater \/ Reader

SpecDash == InitDash /\ [][NextDash]_vars

\* The updater thread is scheduled again and again: its fetches time out
\* after 30 s, its sleeps end.
FairSpecDash == SpecDash /\ WF_vars(Updater)

\* C1: df changes only in the step that compares, and then it becomes the
\* whole new table, which is not empty and whose latest timestamp is strictly
\* later than df's (or df was empty); so a failed cycle and a cycle with an
\* equal or older table leave df alone, and df's latest timestamp never
\* goes back.
SwapOnlyOnNewer ==
    [][/\ df' # df =>
            /\ upc = "decide"
            /\ df' = new_df
            /\ new_df.kind = "df" /\ new_df.rows # <<>>
            /\ (df.rows = <<>> \/ MaxTs(new_df.rows) > MaxTs(df.rows))
       /\ df.rows # <<>> =>
            /\ df'.rows # <<>>
            /\ MaxTs(df'.rows) >= MaxTs(df.rows)]_vars

\* A cycle has produced a table that differs from df and is no later than
\* it, and df was kept.
EqualOrOlderTableRejected ==
    /\ upc = "wait"
    /\ new_df.kind = "df" /\ new_df.rows # <<>> /\ df.rows # <<>>
    /\ new_df # df
    /\ MaxTs(new_df.rows) <= MaxTs(df.rows)

\* What a callback returns from one version t of the table: for
\* update_status the summary (count, earliest, latest), for update_graphs
\* the figures of the rows at or after start_time.
FromOneVersion(t) ==
    IF rlocal.op = "update_status"
    THEN IF t.rows = <<>> THEN rlocal.out = <<"No data available">>
         ELSE /\ Len(rlocal.out) = 3
              /\ rlocal.out[3] = [record_count |-> Len(t.rows),
                                  earliest_time |-> MinTs(t.rows),
                                  latest_time |-> MaxTs(t.rows)]
    ELSE IF t.rows = <<>> THEN rlocal.out = <<"Waiting for data...">>
         ELSE rlocal.out =
                Figures(DataFrame(SelectSeq(t.rows,
                    LAMBDA r : r["timestamp"] >= rlocal.start_time)))

\* C2: whatever update_status or update_graphs returns is derived from one
\* single version of df among those df held while the callback ran.
ReadersSeeOneVersion ==
    rpc = "returned" => \E t \in rseen : FromOneVersion(t)

\* C4: every cycle of update_data reaches the wait for the next interval and
\* is followed by another cycle, whatever fails.
UpdaterNeverStops ==
    /\ (upc = "start") ~> (upc = "wait")
    /\ (upc = "wait") ~> (upc = "start")

\* MaxStreak cycles in a row have failed and the updater is at its wait.
FailedCyclesInARow ==
    /\ upc = "wait"
    /\ failStreak = MaxStreak
    /\ data_fetch_error = "Failed to fetch new data"

====
